---- MODULE Spec2Model ----
(***************************************************************************)
(* The MessageLoop namespace of the messaging module (the global message   *)
(* loop): sendMessage, postMessage, the hook registry, clearData, flush,   *)
(* the loop run and the deferred cleanup of hook arrays.                   *)
(*                                                                         *)
(* The program is single threaded.  Synchronous nesting (a hook or a       *)
(* handler that calls back into the loop) is modelled by an explicit call  *)
(* stack; the microtask queue of the schedule() primitive is the sequence  *)
(* tasks.  User code (hooks, handlers, top-level callers) is an arbitrary  *)
(* caller of the public functions, bounded by the budget.                  *)
(***************************************************************************)
EXTENDS Integers, Sequences, FiniteSets, TLC

VARIABLES
    messageQueue,     \* the LinkedList of PostedMessage pairs, first to last
    pending,          \* the cancel function of the pending loop task; 0 is null
    tasks,            \* callbacks given to schedule(), in scheduling order
    messageHooks,     \* handler -> array of hooks; 0 is a null (cleared) slot
    dirtySet,         \* hook arrays pending cleanup, named by their handler
    exceptionHandler, \* the current exception handler
    flushGuard,       \* the flush recursion guard
    stack,            \* the call stack: active activations, innermost last
    budget,           \* calls of public functions the user code may still make
    nextId,           \* history: identity given to the next enqueued entry
    delivered,        \* history: entries a loop run dispatched, in order
    installed,        \* history: per handler, the installed hooks, oldest first
    clearedIds,       \* history: entries that were queued when clearData hit them
    burst,            \* history: posts of always-conflating messages per (handler, type)
    crashed,          \* history: a loop run dequeued from an empty queue
    caught,           \* history: the exceptions given to the exception handler
    postedHooks,      \* history: per queued entry, the hooks of its handler when it was posted
    selfRemoved,      \* history: (handler, hook) removed by the hook itself, not reinstalled
    last              \* history: the function that ran last, and what it did

vars == << messageQueue, pending, tasks, messageHooks, dirtySet, exceptionHandler,
           flushGuard, stack, budget, nextId, delivered, installed, clearedIds,
           burst, crashed, caught, postedHooks, selfRemoved, last >>

----------------------------------------------------------------------------
(* Bounds of the model. *)

MaxCalls == 4
MaxHookCalls == 5
MaxFlushCalls == 6
MaxDepth == 6

(* Identities of the handlers and hooks the user code owns; 0 is null. *)
Handlers == {1, 2}
HookIds == {1, 2}
MsgTypes == {"a", "b"}

(* Message: isConflatable false, conflate false.  ConflatableMessage: both *)
(* true.  A custom subclass: isConflatable true, conflate decides per call. *)
MsgClasses == {"plain", "conflatable", "custom"}

Messages == [type : MsgTypes, cls : MsgClasses]

NoMsg == [type |-> "none", cls |-> "none"]

----------------------------------------------------------------------------
(* Generic helpers. *)

RECURSIVE Reverse(_)
Reverse(s) == IF s = << >> THEN << >> ELSE Append(Reverse(Tail(s)), Head(s))

RECURSIVE Without(_, _)
Without(s, x) ==
    IF s = << >> THEN << >>
    ELSE IF Head(s) = x THEN Without(Tail(s), x)
    ELSE << Head(s) >> \o Without(Tail(s), x)

Range(s) == { s[i] : i \in 1..Len(s) }

Min(S) == CHOOSE x \in S : \A y \in S : x <= y

Repeat(x, n) == IF n = 0 THEN << >> ELSE [j \in 1..n |-> x]

IsPrefix(s, t) == Len(s) <= Len(t) /\ SubSeq(t, 1, Len(s)) = s

----------------------------------------------------------------------------
(* The scheduling primitive. *)

Task(id, fn) == [id |-> id, fn |-> fn, rejected |-> FALSE]

FreshTask(ts, p) ==
    Min((1..(Len(ts) + 2)) \ ({ ts[i].id : i \in 1..Len(ts) } \cup {p}))

(* schedule(fn): the callback joins the microtask queue, not rejected. *)
schedule(ts, p, fn) == Append(ts, Task(FreshTask(ts, p), fn))

(* Mutation: the function schedule() returns does nothing. *)
UnscheduleNone(ts, id) == ts

(* The function schedule() returns: it sets the callback's rejected flag. *)
Unschedule(ts, id) ==
    IF ts = << >> THEN << >>
    ELSE [i \in 1..Len(ts) |->
            IF ts[i].id = id THEN [ts[i] EXCEPT !.rejected = TRUE] ELSE ts[i]]

----------------------------------------------------------------------------
(* Messages and queue entries. *)

isConflatable(msg) == msg.cls \in {"conflatable", "custom"}

(* Mutation: conflate of every class keeps the default answer, false. *)
conflateDefault(msg) == {FALSE}

(* The answers conflate() of a queued message may give. *)
conflate(msg) ==
    CASE msg.cls = "conflatable" -> {TRUE}
      [] msg.cls = "custom" -> {TRUE, FALSE}
      [] OTHER -> {FALSE}

PostedMessage(id, h, msg) ==
    [id |-> id, sentinel |-> FALSE, handler |-> h, msg |-> msg]

SentinelEntry(sid) ==
    [id |-> sid, sentinel |-> TRUE, handler |-> 0, msg |-> NoMsg]

addLast(q, e) == Append(q, e)

(* Mutation: the posted pair is added to the front of the queue. *)
EnqueuedFirst(q, e) == << e >> \o q

(* The queue after enqueueMessage added the posted pair. *)
Enqueued(q, e) == addLast(q, e)

(* Mutation: the callback does not compare the handlers. *)
ConflationTargetAnyHandler(posted, h, msg) ==
    /\ posted.msg # NoMsg
    /\ posted.msg.type = msg.type
    /\ posted.msg.cls \in {"conflatable", "custom"}

(* The test the postMessage callback makes before it calls conflate. *)
ConflationTarget(posted, h, msg) ==
    /\ posted.handler = h
    /\ posted.msg # NoMsg
    /\ posted.msg.type = msg.type
    /\ isConflatable(posted.msg)

(* Indices of the queue entries the callback of some() reaches conflate on. *)
Targets(q, h, msg) ==
    IF q = << >> THEN << >>
    ELSE SelectSeq([i \in 1..Len(q) |-> i], LAMBDA i : ConflationTarget(q[i], h, msg))

(* Mutation: the iteration does not stop at the first true. *)
VisitedAll(ts, n) == ts

(* some(): how many of the targets are visited when the n-th is the first *)
(* to answer true (n = 0: none does, all are visited). *)
Visited(ts, n) == IF n = 0 THEN ts ELSE SubSeq(ts, 1, n)

----------------------------------------------------------------------------
(* The call stack. *)

Top == stack[Len(stack)]

Pop(stk, n) == SubSeq(stk, 1, Len(stk) - n)

InUserCode == IF stack = << >> THEN TRUE ELSE Top.kind \in {"hook", "handler"}

CanCall == budget > 0 /\ InUserCode

(* sid: the sentinel of the run; flush: the run was called by flush. *)
(* History: bound, the newest entry enqueued when it began; caught0, the *)
(* number of calls of the exception handler made when it began. *)
LoopFrame(sid, fl, bound) ==
    [kind |-> "loop", sid |-> sid, flush |-> fl, bound |-> bound, caught0 |-> Len(caught)]

(* h, msg, i: the activation of sendMessage and the slot every() is at. *)
(* eid: the queue entry it delivers, 0 for a direct call.  History: trace, *)
(* the user code called so far; live0, the hooks installed when it began, *)
(* newest first; plan, live0 less the hooks taken away before their turn; *)
(* unhooked, those taken away by removeMessageHook; clearedAt, the length *)
(* of trace when clearData first hit the handler; gone, the hooks that had *)
(* removed themselves when it began; selfRemoved, a hook of this delivery *)
(* removed itself. *)
SendFrame(h, msg, eid, i, tr, plan, gone) ==
    [kind |-> "send", h |-> h, msg |-> msg, eid |-> eid, i |-> i, trace |-> tr,
     plan |-> plan, live0 |-> plan, unhooked |-> {}, clearedAt |-> -1,
     gone |-> gone, selfRemoved |-> FALSE]

UserFrame(kind, h, k) == [kind |-> kind, h |-> h, k |-> k]

FreshSentinel ==
    Min((1..(Len(messageQueue) + Len(stack) + 1)) \
        ({ messageQueue[i].id : i \in { j \in 1..Len(messageQueue) : messageQueue[j].sentinel } }
         \cup { stack[i].sid : i \in { j \in 1..Len(stack) : stack[j].kind = "loop" } }))

----------------------------------------------------------------------------
(* Hook arrays. *)

HooksOf(h) == IF h \in DOMAIN messageHooks THEN messageHooks[h] ELSE << >>

(* Mutation: the hook is never found. *)
indexOfNone(hooks, k) == 0

(* Mutation: the search answers the last slot, whatever it holds. *)
indexOfLast(hooks, k) == Len(hooks)

indexOf(hooks, k) ==
    IF \E i \in 1..Len(hooks) : hooks[i] = k
    THEN Min({ i \in 1..Len(hooks) : hooks[i] = k })
    ELSE 0

(* Mutation: no slot is visited. *)
NextHookNone(hooks, i) == 0

(* retro(hooks) with null slots passed over: the next slot below i that *)
(* holds a hook, 0 when there is none. *)
NextHook(hooks, i) ==
    IF \E j \in 1..(i - 1) : j <= Len(hooks) /\ hooks[j] # 0
    THEN CHOOSE j \in 1..(i - 1) :
            /\ j <= Len(hooks) /\ hooks[j] # 0
            /\ \A l \in (j + 1)..(i - 1) : l <= Len(hooks) => hooks[l] = 0
    ELSE 0

(* Mutation: the iteration goes on whatever the callback answers. *)
PassedAlways(result) == TRUE

(* every(): the iteration goes on only while the callback answers true. *)
Passed(result) == result = TRUE

(* Mutation: the hooks are left in the array. *)
fillNone(hooks) == hooks

(* ArrayExt.fill(hooks, null). *)
fill(hooks) == IF hooks = << >> THEN << >> ELSE [i \in 1..Len(hooks) |-> 0]

(* Mutation: nothing is removed. *)
removeNone(hooks) == hooks

(* Mutation: the hooks that are left are put in the opposite order. *)
removeAllWhereNullReversed(hooks) == Reverse(SelectSeq(hooks, LAMBDA k : k # 0))

(* ArrayExt.removeAllWhere(hooks, isNull). *)
removeAllWhereNull(hooks) == SelectSeq(hooks, LAMBDA k : k # 0)

----------------------------------------------------------------------------
(* History bookkeeping, kept apart from the hook arrays themselves. *)

NoBurst == [n |-> 0, first |-> 0, ids |-> {}]

(* Hooks of a delivery that were called, or are being called. *)
Invoked(f) == { f.trace[j].k : j \in 1..Len(f.trace) } \ {0}

(* A hook leaves handler h: deliveries to h in progress that have not *)
(* reached it will not call it. *)
Unplan(stk, h, ks) ==
    IF stk = << >> THEN << >> ELSE
    [j \in 1..Len(stk) |->
        IF stk[j].kind = "send" /\ stk[j].h = h
        THEN [stk[j] EXCEPT !.plan =
                 SelectSeq(@, LAMBDA k : k \notin ks \/ k \in Invoked(stk[j]))]
        ELSE stk[j]]

MarkUnhooked(stk, h, k, self) ==
    IF stk = << >> THEN << >> ELSE
    [j \in 1..Len(stk) |->
        IF stk[j].kind = "send" /\ stk[j].h = h
        THEN [stk[j] EXCEPT
                 !.unhooked = IF k \in Range(stk[j].plan) /\ k \notin Invoked(stk[j])
                              THEN @ \cup {k} ELSE @,
                 !.selfRemoved = @ \/ (self /\ j = Len(stk) - 1)]
        ELSE stk[j]]

MarkCleared(stk, h) ==
    IF stk = << >> THEN << >> ELSE
    [j \in 1..Len(stk) |->
        IF stk[j].kind = "send" /\ stk[j].h = h /\ stk[j].clearedAt = -1
        THEN [stk[j] EXCEPT !.clearedAt = Len(stk[j].trace)]
        ELSE stk[j]]

----------------------------------------------------------------------------
(* The state after the module is loaded. *)

Start(calls) ==
    /\ messageQueue = << >>
    /\ pending = 0
    /\ tasks = << >>
    /\ messageHooks = << >>
    /\ dirtySet = {}
    /\ exceptionHandler = "log"
    /\ flushGuard = FALSE
    /\ stack = << >>
    /\ budget = calls
    /\ nextId = 1
    /\ delivered = << >>
    /\ installed = [h \in Handlers |-> << >>]
    /\ clearedIds = {}
    /\ burst = [p \in Handlers \X MsgTypes |-> NoBurst]
    /\ crashed = FALSE
    /\ caught = << >>
    /\ postedHooks = << >>
    /\ selfRemoved = {}
    /\ last = [kind |-> "init"]

Init == Start(MaxCalls)

InitHooks == Start(MaxHookCalls)

InitFlush == Start(MaxFlushCalls)

----------------------------------------------------------------------------
(* sendMessage: the stack once the call has reached its first user code, *)
(* the newest hook that is not null, or the handler when there is none. *)

InvokeNext(stk, f, from) ==
    LET hooks == HooksOf(f.h)
        j == NextHook(hooks, from)
    IN  IF j = 0
        THEN stk \o << [f EXCEPT !.i = 0,
                               !.trace = Append(@, [k |-> 0, r |-> "pending"])],
                       UserFrame("handler", f.h, 0) >>
        ELSE stk \o << [f EXCEPT !.i = j,
                               !.trace = Append(@, [k |-> hooks[j], r |-> "pending"])],
                       UserFrame("hook", f.h, hooks[j]) >>

BeginSend(stk, h, msg, eid) ==
    InvokeNext(stk,
               SendFrame(h, msg, eid, 0, << >>, Reverse(installed[h]),
                         { k \in HookIds : << h, k >> \in selfRemoved }),
               Len(HooksOf(h)) + 1)

(* The send frame below the running user code, with the user code's result. *)
Answered(f, r) == [f EXCEPT !.trace[Len(f.trace)].r = r]

(* The exception reaches the exception handler: it logs and returns, or it *)
(* throws again and the exception leaves every activation on the stack. *)
Rethrows == exceptionHandler = "rethrow"

----------------------------------------------------------------------------
(* The public functions, called by top-level code, a hook or a handler. *)

(* Mutation: sendMessage puts the message in the queue as well. *)
sendMessageQueued(h, msg) ==
    /\ CanCall
    /\ Len(stack) + 2 <= MaxDepth
    /\ stack' = BeginSend(stack, h, msg, 0)
    /\ budget' = budget - 1
    /\ last' = [kind |-> "send", h |-> h]
    /\ messageQueue' = Enqueued(messageQueue, PostedMessage(nextId, h, msg))
    /\ UNCHANGED << pending, tasks, messageHooks, dirtySet,
                    exceptionHandler, flushGuard, nextId, delivered, installed,
                    clearedIds, burst, crashed, caught, postedHooks, selfRemoved >>

sendMessage(h, msg) ==
    /\ CanCall
    /\ Len(stack) + 2 <= MaxDepth
    /\ stack' = BeginSend(stack, h, msg, 0)
    /\ budget' = budget - 1
    /\ last' = [kind |-> "send", h |-> h]
    /\ UNCHANGED << messageQueue, pending, tasks, messageHooks, dirtySet,
                    exceptionHandler, flushGuard, nextId, delivered, installed,
                    clearedIds, burst, crashed, caught, postedHooks, selfRemoved >>

(* enqueueMessage: the queue, the pending handle and the scheduled tasks. *)
enqueueMessage(h, msg) ==
    /\ messageQueue' = Enqueued(messageQueue, PostedMessage(nextId, h, msg))
    /\ nextId' = nextId + 1
    /\ postedHooks' = Append(postedHooks, Reverse(installed[h]))
    /\ IF pending # 0
       THEN UNCHANGED << pending, tasks >>
       ELSE /\ tasks' = schedule(tasks, pending, "runMessageLoop")
            /\ pending' = tasks'[Len(tasks')].id

BurstAfter(h, msg, appended) ==
    LET p == << h, msg.type >>
    IN  IF msg.cls # "conflatable" THEN burst
        ELSE IF burst[p].n = 0
        THEN IF appended
             THEN [burst EXCEPT ![p] = [n |-> 1, first |-> nextId, ids |-> {nextId}]]
             ELSE burst
        ELSE [burst EXCEPT ![p] =
                 [@ EXCEPT !.n = @ + 1,
                           !.ids = IF appended THEN @ \cup {nextId} ELSE @]]

(* Mutation: a post that a queued message absorbed is appended as well. *)
postMessageAppends(h, msg) ==
    /\ CanCall
    /\ budget' = budget - 1
    /\ LET ts == Targets(messageQueue, h, msg)
       IN  \E n \in 0..Len(ts) :
             /\ \A j \in 1..Len(ts) :
                   (n = 0 \/ j < n) => FALSE \in conflate(messageQueue[ts[j]].msg)
             /\ n # 0 => TRUE \in conflate(messageQueue[ts[n]].msg)
             /\ enqueueMessage(h, msg)
             /\ burst' = BurstAfter(h, msg, TRUE)
             /\ last' = [kind |-> "post", h |-> h, msg |-> msg,
                         pre |-> messageQueue, calls |-> Visited(ts, n),
                         accepted |-> n, conflated |-> (n # 0)]
    /\ UNCHANGED << messageHooks, dirtySet, exceptionHandler, flushGuard, stack,
                    delivered, installed, clearedIds, crashed, caught, selfRemoved >>

postMessage(h, msg) ==
    /\ CanCall
    /\ budget' = budget - 1
    /\ IF ~isConflatable(msg)
       THEN /\ enqueueMessage(h, msg)
            /\ burst' = BurstAfter(h, msg, TRUE)
            /\ last' = [kind |-> "post", h |-> h, msg |-> msg, pre |-> messageQueue,
                        calls |-> << >>, accepted |-> 0, conflated |-> FALSE]
       ELSE LET ts == Targets(messageQueue, h, msg)
            IN  \E n \in 0..Len(ts) :
                  /\ \A j \in 1..Len(ts) :
                        (n = 0 \/ j < n) => FALSE \in conflate(messageQueue[ts[j]].msg)
                  /\ n # 0 => TRUE \in conflate(messageQueue[ts[n]].msg)
                  /\ IF n # 0
                     THEN UNCHANGED << messageQueue, nextId, pending, tasks, postedHooks >>
                     ELSE enqueueMessage(h, msg)
                  /\ burst' = BurstAfter(h, msg, n = 0)
                  /\ last' = [kind |-> "post", h |-> h, msg |-> msg,
                              pre |-> messageQueue, calls |-> Visited(ts, n),
                              accepted |-> n, conflated |-> (n # 0)]
    /\ UNCHANGED << messageHooks, dirtySet, exceptionHandler, flushGuard, stack,
                    delivered, installed, clearedIds, crashed, caught, selfRemoved >>

(* Mutation: the hook is added to the front of the array. *)
pushFront(hooks, k) == << k >> \o hooks

(* The array after the hook is added to the end. *)
push(hooks, k) == Append(hooks, k)

(* Mutation: the hook is added without looking for it in the array. *)
installMessageHookUnchecked(h, k) ==
    /\ CanCall
    /\ budget' = budget - 1
    /\ IF h \notin DOMAIN messageHooks
       THEN messageHooks' = (h :> << k >>) @@ messageHooks
       ELSE messageHooks' = [messageHooks EXCEPT ![h] = push(@, k)]
    /\ installed' = [installed EXCEPT ![h] =
                        IF k \in Range(@) THEN @ ELSE Append(@, k)]
    /\ selfRemoved' = selfRemoved \ {<< h, k >>}
    /\ last' = [kind |-> "install", h |-> h, k |-> k]
    /\ UNCHANGED << messageQueue, pending, tasks, dirtySet, exceptionHandler,
                    flushGuard, stack, nextId, delivered, clearedIds, burst, crashed, caught, postedHooks >>

installMessageHook(h, k) ==
    /\ CanCall
    /\ budget' = budget - 1
    /\ IF h \in DOMAIN messageHooks /\ indexOf(messageHooks[h], k) # 0
       THEN UNCHANGED messageHooks
       ELSE IF h \notin DOMAIN messageHooks
            THEN messageHooks' = (h :> << k >>) @@ messageHooks
            ELSE messageHooks' = [messageHooks EXCEPT ![h] = push(@, k)]
    /\ installed' = [installed EXCEPT ![h] =
                        IF k \in Range(@) THEN @ ELSE Append(@, k)]
    /\ selfRemoved' = selfRemoved \ {<< h, k >>}
    /\ last' = [kind |-> "install", h |-> h, k |-> k]
    /\ UNCHANGED << messageQueue, pending, tasks, dirtySet, exceptionHandler,
                    flushGuard, stack, nextId, delivered, clearedIds, burst, crashed, caught, postedHooks >>

(* Mutation: cleanupDirtySet is scheduled whatever the dirty set holds. *)
scheduleCleanupEveryTime(h) ==
    /\ tasks' = schedule(tasks, pending, "cleanupDirtySet")
    /\ dirtySet' = dirtySet \cup {h}

(* scheduleCleanup: the scheduled tasks and the dirty set. *)
scheduleCleanup(h) ==
    /\ tasks' = IF dirtySet = {} THEN schedule(tasks, pending, "cleanupDirtySet")
                ELSE tasks
    /\ dirtySet' = dirtySet \cup {h}

(* Mutation: the slot keeps the hook. *)
TombstoneNone(hooks, i) == hooks

(* The array removeMessageHook leaves: the slot of the hook is null. *)
Tombstone(hooks, i) == [hooks EXCEPT ![i] = 0]

removeMessageHook(h, k) ==
    /\ CanCall
    /\ budget' = budget - 1
    /\ IF h \notin DOMAIN messageHooks \/ indexOf(HooksOf(h), k) = 0
       THEN UNCHANGED << messageHooks, tasks, dirtySet >>
       ELSE /\ messageHooks' = [messageHooks EXCEPT ![h] =
                                   Tombstone(@, indexOf(@, k))]
            /\ scheduleCleanup(h)
    /\ installed' = [installed EXCEPT ![h] = Without(@, k)]
    /\ LET self == IF stack = << >> THEN FALSE ELSE Top = UserFrame("hook", h, k)
       IN  /\ stack' = Unplan(MarkUnhooked(stack, h, k, self), h, {k})
           /\ selfRemoved' = IF self /\ k \in Range(installed[h])
                             THEN selfRemoved \cup {<< h, k >>} ELSE selfRemoved
           /\ last' = [kind |-> "remove", h |-> h, k |-> k, self |-> self]
    /\ UNCHANGED << messageQueue, pending, exceptionHandler, flushGuard, nextId,
                    delivered, clearedIds, burst, crashed, caught, postedHooks >>

(* Mutation: clearData takes the entries of the handler out of the queue. *)
InvalidateRemoved(q, h) == SelectSeq(q, LAMBDA e : e.handler # h)

(* Mutation: clearData leaves the posted messages alone. *)
InvalidateNone(q, h) == q

(* The queue clearData leaves: the entries of the handler hold null, null. *)
Invalidate(q, h) ==
    IF q = << >> THEN << >> ELSE
    [i \in 1..Len(q) |->
        IF q[i].handler = h THEN [q[i] EXCEPT !.handler = 0, !.msg = NoMsg] ELSE q[i]]

clearData(h) ==
    /\ CanCall
    /\ budget' = budget - 1
    /\ IF h \in DOMAIN messageHooks /\ Len(HooksOf(h)) > 0
       THEN /\ messageHooks' = [messageHooks EXCEPT ![h] = fill(@)]
            /\ scheduleCleanup(h)
       ELSE UNCHANGED << messageHooks, tasks, dirtySet >>
    /\ messageQueue' = Invalidate(messageQueue, h)
    /\ installed' = [installed EXCEPT ![h] = << >>]
    /\ clearedIds' = clearedIds \cup
            { messageQueue[i].id : i \in { j \in 1..Len(messageQueue) :
                                              messageQueue[j].handler = h } }
    /\ burst' = [p \in DOMAIN burst |-> IF p[1] = h THEN NoBurst ELSE burst[p]]
    /\ stack' = MarkCleared(Unplan(stack, h, HookIds), h)
    /\ last' = [kind |-> "clearData", h |-> h,
                inDelivery |-> \E j \in 1..Len(stack) :
                                   stack[j].kind = "send" /\ stack[j].h = h]
    /\ UNCHANGED << pending, exceptionHandler, flushGuard, nextId, delivered, crashed, caught, postedHooks,
                    selfRemoved >>

(* The result is kept in last. *)
getExceptionHandler ==
    /\ CanCall
    /\ budget' = budget - 1
    /\ last' = [kind |-> "getExceptionHandler", result |-> exceptionHandler]
    /\ UNCHANGED << messageQueue, pending, tasks, messageHooks, dirtySet,
                    exceptionHandler, flushGuard, stack, nextId, delivered, installed,
                    clearedIds, burst, crashed, caught, postedHooks, selfRemoved >>

(* Mutation: the handler given is returned, not the one it replaces. *)
setExceptionHandlerReturnsNew(e) ==
    /\ CanCall
    /\ budget' = budget - 1
    /\ exceptionHandler' = e
    /\ last' = [kind |-> "setExceptionHandler", old |-> e, new |-> e]
    /\ UNCHANGED << messageQueue, pending, tasks, messageHooks, dirtySet, flushGuard,
                    stack, nextId, delivered, installed, clearedIds, burst, crashed,
                    caught, postedHooks, selfRemoved >>

(* The result, old, is kept in last with the handler given. *)
setExceptionHandler(e) ==
    /\ CanCall
    /\ budget' = budget - 1
    /\ exceptionHandler' = e
    /\ last' = [kind |-> "setExceptionHandler", old |-> exceptionHandler, new |-> e]
    /\ UNCHANGED << messageQueue, pending, tasks, messageHooks, dirtySet, flushGuard,
                    stack, nextId, delivered, installed, clearedIds, burst, crashed, caught, postedHooks, selfRemoved >>

(* Mutation: flush does not set its guard. *)
EnterLoopUnguarded(fromFlush) ==
    /\ pending' = 0
    /\ IF messageQueue = << >>
       THEN UNCHANGED << messageQueue, stack, flushGuard >>
       ELSE /\ messageQueue' = addLast(messageQueue, SentinelEntry(FreshSentinel))
            /\ stack' = Append(stack, LoopFrame(FreshSentinel, fromFlush, nextId - 1))
            /\ flushGuard' = flushGuard

(* runMessageLoop up to its loop: the pending handle is cleared and, unless *)
(* the queue is empty, a fresh sentinel is added and the loop is entered. *)
EnterLoop(fromFlush) ==
    /\ pending' = 0
    /\ IF messageQueue = << >>
       THEN UNCHANGED << messageQueue, stack, flushGuard >>
       ELSE /\ messageQueue' = addLast(messageQueue, SentinelEntry(FreshSentinel))
            /\ stack' = Append(stack, LoopFrame(FreshSentinel, fromFlush, nextId - 1))
            /\ flushGuard' = IF fromFlush THEN TRUE ELSE flushGuard

flush ==
    /\ CanCall
    /\ Len(stack) + 3 <= MaxDepth
    /\ budget' = budget - 1
    /\ IF flushGuard \/ pending = 0
       THEN /\ UNCHANGED << messageQueue, pending, tasks, stack, flushGuard >>
            /\ last' = [kind |-> "flush", ran |-> FALSE]
       ELSE /\ tasks' = Unschedule(tasks, pending)
            /\ EnterLoop(TRUE)
            /\ last' = [kind |-> "flush", ran |-> TRUE]
    /\ UNCHANGED << messageHooks, dirtySet, exceptionHandler, nextId, delivered,
                    installed, clearedIds, burst, crashed, caught, postedHooks, selfRemoved >>

----------------------------------------------------------------------------
(* Returns of the user code that sendMessage called. *)

(* invokeHook returned r; every() goes on to the next hook, or the handler, *)
(* or stops the delivery. *)
(* Mutation: a hook that throws counts as a hook that answers false. *)
AfterHookFailClosed(stk, r) ==
    LET f == Answered(stk[Len(stk) - 1], r)
    IN  IF Passed(r = "true") THEN InvokeNext(Pop(stk, 2), f, f.i) ELSE Pop(stk, 2)

AfterHook(stk, r) ==
    LET f == Answered(stk[Len(stk) - 1], r)
    IN  IF Passed(r # "false") THEN InvokeNext(Pop(stk, 2), f, f.i) ELSE Pop(stk, 2)

(* Mutation: the exception handler's return is not awaited, the call of *)
(* processMessage takes every activation with it. *)
AfterHandlerUnwound(stk) == << >>

(* invokeHandler returned, by the return of processMessage or by the *)
(* return of the exception handler; sendMessage returns to its caller. *)
AfterHandler(stk) == Pop(stk, 2)

(* An exception leaves the user code on top of stk. *)
AfterThrow(stk) ==
    IF Rethrows THEN << >>
    ELSE IF stk[Len(stk)].kind = "hook" THEN AfterHook(stk, "threw")
    ELSE AfterHandler(stk)

(* The calls of the exception handler an exception makes on its way out of *)
(* the user code on top of stk: one by the catch clause of invokeHook or *)
(* invokeHandler when the exception handler returns; when it throws again, *)
(* one by the catch clause around every user code on the stack. *)
Catches(stk) ==
    LET n == Cardinality({ j \in 1..Len(stk) : stk[j].kind \in {"hook", "handler"} })
    IN  IF Rethrows THEN n ELSE IF n = 0 THEN 0 ELSE 1

(* What the exception handler is given: the exception of the user code on *)
(* top of stk (handler h; hook k, 0 for processMessage; the queue entry *)
(* delivered, 0 in a direct sendMessage), or the TypeError of the loop. *)
Fault(stk) ==
    [h |-> stk[Len(stk)].h, k |-> stk[Len(stk)].k, eid |-> stk[Len(stk) - 1].eid]

LoopFault == [h |-> 0, k |-> 0, eid |-> 0]

Ended(stk, r) == [kind |-> "delivered", f |-> Answered(stk[Len(stk) - 1], r)]

HookReturn(result) ==
    /\ stack # << >> /\ Top.kind = "hook"
    /\ stack' = AfterHook(stack, IF result THEN "true" ELSE "false")
    /\ last' = IF result THEN [kind |-> "hookReturn"] ELSE Ended(stack, "false")
    /\ UNCHANGED << messageQueue, pending, tasks, messageHooks, dirtySet,
                    exceptionHandler, flushGuard, budget, nextId, delivered,
                    installed, clearedIds, burst, crashed, caught, postedHooks, selfRemoved >>

HandlerReturn ==
    /\ stack # << >> /\ Top.kind = "handler"
    /\ stack' = AfterHandler(stack)
    /\ last' = Ended(stack, "done")
    /\ UNCHANGED << messageQueue, pending, tasks, messageHooks, dirtySet,
                    exceptionHandler, flushGuard, budget, nextId, delivered,
                    installed, clearedIds, burst, crashed, caught, postedHooks, selfRemoved >>

UserThrow ==
    /\ stack # << >> /\ Top.kind \in {"hook", "handler"}
    /\ budget > 0
    /\ budget' = budget - 1
    /\ stack' = AfterThrow(stack)
    /\ caught' = caught \o Repeat(Fault(stack), Catches(stack))
    /\ postedHooks' = postedHooks
    /\ last' = IF Rethrows THEN [kind |-> "unwound"]
               ELSE IF Top.kind = "hook" THEN [kind |-> "hookThrow"]
               ELSE Ended(stack, "threw")
    /\ UNCHANGED << messageQueue, pending, tasks, messageHooks, dirtySet,
                    exceptionHandler, flushGuard, nextId, delivered,
                    installed, clearedIds, burst, crashed, selfRemoved >>

----------------------------------------------------------------------------
(* The scheduled callbacks and the loop. *)

cleanupDirtySet ==
    /\ messageHooks' = [h \in DOMAIN messageHooks |->
                           IF h \in dirtySet THEN removeAllWhereNull(messageHooks[h])
                           ELSE messageHooks[h]]
    /\ dirtySet' = {}

(* Mutation: a callback is run in the middle of the running code. *)
CanRunAnytime(stk) == TRUE

(* resolved.then(...): a callback is run only when no code is on the stack. *)
CanRun(stk) == stk = << >>

(* The next scheduled callback runs. *)
RunTask ==
    /\ CanRun(stack)
    /\ tasks # << >>
    /\ tasks' = Tail(tasks)
    /\ last' = [kind |-> "task", fn |-> Head(tasks).fn, ran |-> ~Head(tasks).rejected]
    /\ IF Head(tasks).rejected
       THEN UNCHANGED << messageQueue, pending, messageHooks, dirtySet, flushGuard, stack >>
       ELSE IF Head(tasks).fn = "runMessageLoop"
       THEN /\ EnterLoop(FALSE)
            /\ UNCHANGED << messageHooks, dirtySet >>
       ELSE /\ cleanupDirtySet
            /\ UNCHANGED << messageQueue, pending, flushGuard, stack >>
    /\ UNCHANGED << exceptionHandler, budget, nextId, delivered, installed,
                    clearedIds, burst, crashed, caught, postedHooks, selfRemoved >>

(* One turn of the while loop of runMessageLoop. *)
LoopStep ==
    /\ stack # << >> /\ Top.kind = "loop"
    /\ IF messageQueue = << >>
       THEN \* removeFirst() gives undefined and posted.handler throws
            /\ crashed' = TRUE
            /\ caught' = caught \o Repeat(LoopFault, Catches(Pop(stack, 1)))
            /\ stack' = IF Len(stack) = 1 THEN << >> ELSE AfterThrow(Pop(stack, 1))
            /\ last' = [kind |-> "loopFault"]
            /\ UNCHANGED << messageQueue, flushGuard, delivered, burst, postedHooks >>
       ELSE LET posted == Head(messageQueue)
            IN  /\ messageQueue' = Tail(messageQueue)
                /\ crashed' = crashed
                /\ postedHooks' = IF posted.sentinel THEN postedHooks
                                  ELSE [postedHooks EXCEPT ![posted.id] = << >>]
                /\ caught' = caught
                /\ IF posted.sentinel /\ posted.id = Top.sid
                   THEN /\ stack' = Pop(stack, 1)
                        /\ flushGuard' = IF Top.flush THEN FALSE ELSE flushGuard
                        /\ last' = [kind |-> "loopEnd", flush |-> Top.flush]
                        /\ UNCHANGED << delivered, burst >>
                   ELSE IF posted.handler # 0 /\ posted.msg # NoMsg
                   THEN /\ stack' = BeginSend(stack, posted.handler, posted.msg, posted.id)
                        /\ delivered' = Append(delivered, posted.id)
                        /\ burst' = [p \in DOMAIN burst |->
                                        IF burst[p].first = posted.id THEN NoBurst
                                        ELSE burst[p]]
                        /\ last' = [kind |-> "dispatch", id |-> posted.id,
                                    hooks0 |-> postedHooks[posted.id]]
                        /\ UNCHANGED flushGuard
                   ELSE /\ last' = [kind |-> "skip", id |-> posted.id,
                                    sentinel |-> posted.sentinel]
                        /\ UNCHANGED << stack, flushGuard, delivered, burst >>
    /\ UNCHANGED << pending, tasks, messageHooks, dirtySet, exceptionHandler, budget,
                    nextId, installed, clearedIds, selfRemoved >>

----------------------------------------------------------------------------
(* The specifications. *)

PlainMsg == [type |-> "a", cls |-> "plain"]

(* Every function, called from anywhere. *)
Next ==
    \/ \E h \in Handlers, msg \in Messages : postMessage(h, msg)
    \/ \E h \in Handlers : sendMessage(h, PlainMsg)
    \/ \E h \in Handlers, k \in HookIds : installMessageHook(h, k)
    \/ \E h \in Handlers, k \in HookIds : removeMessageHook(h, k)
    \/ \E h \in Handlers : clearData(h)
    \/ flush
    \/ getExceptionHandler
    \/ \E e \in {"log", "rethrow"} : setExceptionHandler(e)
    \/ \E r \in BOOLEAN : HookReturn(r)
    \/ HandlerReturn
    \/ UserThrow
    \/ RunTask
    \/ LoopStep

Spec == Init /\ [][Next]_vars

(* The queue side: posting, conflation, loop runs, flush and clearData, *)
(* with one hook per handler at most. *)
QueueMessages ==
    { [type |-> "a", cls |-> "plain"], [type |-> "a", cls |-> "conflatable"],
      [type |-> "a", cls |-> "custom"], [type |-> "b", cls |-> "custom"] }

NextQueue ==
    \/ \E h \in Handlers, msg \in QueueMessages : postMessage(h, msg)
    \/ \E h \in Handlers : installMessageHook(h, 1)
    \/ \E h \in Handlers : clearData(h)
    \/ flush
    \/ setExceptionHandler("rethrow")
    \/ \E r \in BOOLEAN : HookReturn(r)
    \/ HandlerReturn
    \/ UserThrow
    \/ RunTask
    \/ LoopStep

SpecQueue == Init /\ [][NextQueue]_vars

(* The hook side: deliveries through the hook chains, by sendMessage and *)
(* by loop runs. *)
NextHooks ==
    \/ \E h \in Handlers : sendMessage(h, PlainMsg)
    \/ \E h \in Handlers : postMessage(h, PlainMsg)
    \/ LoopStep
    \/ \E h \in Handlers, k \in HookIds : installMessageHook(h, k)
    \/ \E h \in Handlers, k \in HookIds : removeMessageHook(h, k)
    \/ \E h \in Handlers : clearData(h)
    \/ setExceptionHandler("rethrow")
    \/ \E r \in BOOLEAN : HookReturn(r)
    \/ HandlerReturn
    \/ UserThrow
    \/ RunTask

SpecHooks == InitHooks /\ [][NextHooks]_vars

(* Posts and flushes: plain messages posted from anywhere, scheduled runs *)
(* and runs that flush makes, with handlers that may throw and either *)
(* exception handler. *)
NextFlush ==
    \/ \E h \in Handlers : postMessage(h, PlainMsg)
    \/ flush
    \/ \E h \in Handlers : clearData(h)
    \/ getExceptionHandler
    \/ \E e \in {"log", "rethrow"} : setExceptionHandler(e)
    \/ HandlerReturn
    \/ UserThrow
    \/ RunTask
    \/ LoopStep

SpecFlush == InitFlush /\ [][NextFlush]_vars

(* The same, with the scheduling the platform and the callers give: a *)
(* scheduled callback is run once the stack is empty, a loop that is on *)
(* top of the stack takes its next turn, and processMessage returns. *)
SpecFlushFair ==
    /\ SpecFlush
    /\ WF_vars(RunTask)
    /\ WF_vars(LoopStep)
    /\ WF_vars(HandlerReturn)

----------------------------------------------------------------------------
(* Vocabulary of the properties. *)

SendFrames == { stack[j] : j \in { i \in 1..Len(stack) : stack[i].kind = "send" } }

(* The deliveries in progress, and the one that has just ended if any. *)
Deliveries == SendFrames \cup (IF last.kind = "delivered" THEN {last.f} ELSE {})

(* The hooks a delivery called, in the order of the calls. *)
HooksCalled(f) ==
    LET hs == SelectSeq(f.trace, LAMBDA e : e.k # 0)
    IN  IF hs = << >> THEN << >> ELSE [j \in 1..Len(hs) |-> hs[j].k]

HandlerCalls(f) == Len(SelectSeq(f.trace, LAMBDA e : e.k = 0))

Vetoed(f) == \E j \in 1..Len(f.trace) : f.trace[j].r = "false"

AllTrue(f) == \A j \in 1..Len(f.trace) : f.trace[j].k # 0 => f.trace[j].r = "true"

(* The handler was called once, after every hook that was called. *)
HandlerLast(f) ==
    /\ HandlerCalls(f) = 1
    /\ f.trace[Len(f.trace)].k = 0

----------------------------------------------------------------------------
(* C1: entries that are dispatched are dispatched in the order in which *)
(* they were enqueued: the identities of the dispatched entries, which are *)
(* given in enqueue order, increase strictly along the dispatch history, *)
(* across scheduled runs, flushes and runs that an exception ended. *)
C1_DeliveryInPostOrder ==
    \A i, j \in 1..Len(delivered) : i < j => delivered[i] < delivered[j]

(* Three entries were dispatched, the last one inside a flush that a *)
(* handler of the scheduled run called. *)
C1_Witness ==
    /\ Len(delivered) = 3
    /\ Len(stack) >= 4
    /\ stack[1].kind = "loop" /\ ~stack[1].flush
    /\ \E j \in 2..Len(stack) : stack[j].kind = "loop" /\ stack[j].flush

(* C2: a loop run dispatches only entries that were in the queue when it *)
(* began: the entry a run is delivering was enqueued before the run began. *)
C2_RunDeliversOnlyItsSnapshot ==
    \A j \in 1..(Len(stack) - 1) :
        (stack[j].kind = "loop" /\ stack[j + 1].kind = "send")
            => stack[j + 1].eid <= stack[j].bound

(* C3: once a hook of a delivery has returned false, that delivery calls *)
(* nothing more: no older hook and not the handler. *)
C3_VetoStopsDelivery ==
    \A f \in Deliveries :
        \A j \in 1..Len(f.trace) : f.trace[j].r = "false" => j = Len(f.trace)

(* The newest of two installed hooks returned false in a delivery that a *)
(* loop run made; the older hook and the handler were not called. *)
C3_Witness ==
    /\ last.kind = "delivered"
    /\ last.f.eid # 0
    /\ Len(last.f.live0) = 2
    /\ Len(last.f.trace) = 1
    /\ last.f.trace[1] = [k |-> last.f.live0[1], r |-> "false"]

(* C4: a delivery in which every hook called returned true has called the *)
(* hooks that were installed when it began, less those taken away before *)
(* their turn, each once and newest first, and then the handler once. *)
C4_NewestFirstThenHandler ==
    (last.kind = "delivered" /\ AllTrue(last.f))
        => /\ HooksCalled(last.f) = last.f.plan
           /\ HandlerLast(last.f)

(* Both hooks returned true, newest first, past a null slot of the array, *)
(* and the handler ran. *)
C4_Witness ==
    /\ last.kind = "delivered"
    /\ AllTrue(last.f)
    /\ Len(last.f.trace) = 3
    /\ Len(last.f.live0) = 2
    /\ \E j \in 1..Len(HooksOf(last.f.h)) : HooksOf(last.f.h)[j] = 0

(* C5: the posts of ConflatableMessage instances of one type to one *)
(* handler, made while the first of them is still queued, are held by one *)
(* queue entry, the first instance posted: no later one was enqueued, and *)
(* the entry is live, in the queue once, and not yet dispatched. *)
C5_OneEntryPerBurst ==
    \A p \in DOMAIN burst :
        burst[p].n >= 1 =>
            /\ burst[p].ids = {burst[p].first}
            /\ burst[p].first \notin Range(delivered)
            /\ Cardinality({ i \in 1..Len(messageQueue) :
                                /\ ~messageQueue[i].sentinel
                                /\ messageQueue[i].id = burst[p].first
                                /\ messageQueue[i].handler = p[1]
                                /\ messageQueue[i].msg = [type |-> p[2], cls |-> "conflatable"] }) = 1
            /\ Cardinality({ i \in 1..Len(messageQueue) :
                                /\ messageQueue[i].handler = p[1]
                                /\ messageQueue[i].msg = [type |-> p[2], cls |-> "conflatable"] }) = 1

(* Three such posts in a row, behind a queued custom message of the same *)
(* type that declined them. *)
C5_Witness ==
    \E p \in DOMAIN burst :
        /\ burst[p].n = 3
        /\ last.kind = "post" /\ last.conflated /\ Len(last.calls) = 2

(* C6: conflate is called only on the message of an entry that is in the *)
(* queue (not dispatched, not cleared, not a sentinel), of the handler *)
(* posted to, of the type of the posted message and conflatable, and only *)
(* for a conflatable posted message. *)
C6_ConflationTargets ==
    last.kind = "post" =>
        \A c \in Range(last.calls) :
            /\ c \in 1..Len(last.pre)
            /\ ~last.pre[c].sentinel
            /\ last.pre[c].id \notin Range(delivered) \cup clearedIds
            /\ last.pre[c].handler = last.h
            /\ last.pre[c].msg # NoMsg
            /\ last.pre[c].msg.type = last.msg.type
            /\ last.pre[c].msg.cls \in {"conflatable", "custom"}
            /\ last.msg.cls \in {"conflatable", "custom"}

(* A handler that is processing a conflatable message of its own posts the *)
(* same kind of message twice: conflate was called on the queued one only. *)
C6_Witness ==
    /\ last.kind = "post"
    /\ Len(last.calls) = 1
    /\ \E f \in SendFrames :
          f.eid # 0 /\ f.h = last.h /\ f.msg.type = last.msg.type
          /\ f.msg.cls \in {"conflatable", "custom"}

(* The entries of a queue that match a post, in queue order. *)
Matching(q, h, msg) ==
    IF q = << >> THEN << >>
    ELSE SelectSeq([i \in 1..Len(q) |-> i],
                   LAMBDA i : /\ ~q[i].sentinel
                              /\ q[i].handler = h
                              /\ q[i].msg # NoMsg
                              /\ q[i].msg.type = msg.type
                              /\ q[i].msg.cls \in {"conflatable", "custom"})

(* What a post does to the queue, given whether it was conflated. *)
PostEffect ==
    IF last.conflated
    THEN messageQueue = last.pre
    ELSE /\ Len(messageQueue) = Len(last.pre) + 1
         /\ SubSeq(messageQueue, 1, Len(last.pre)) = last.pre
         /\ messageQueue[Len(messageQueue)].handler = last.h
         /\ messageQueue[Len(messageQueue)].msg = last.msg

C8_ClearedNeverDelivered == Range(delivered) \cap clearedIds = {}

(* A loop run has just taken an entry that clearData had hit out of the *)
(* queue and passed over it, after dispatching an entry of another handler. *)
C8_Witness ==
    /\ last.kind = "skip"
    /\ ~last.sentinel
    /\ last.id \in clearedIds
    /\ delivered # << >>

(* C9 as stated: clearData during a delivery to the handler changes *)
(* nothing for that delivery: the hooks that were installed when it began *)
(* are all called, newest first, but for those removeMessageHook took *)
(* away and those after a hook that returned false, and the handler is *)
(* called if and only if all of them returned true. *)
C9_ClearDataLeavesDeliveryAlone ==
    (last.kind = "delivered" /\ last.f.clearedAt >= 0) =>
        LET expect == SelectSeq(last.f.live0, LAMBDA k : k \notin last.f.unhooked)
        IN  IF Vetoed(last.f)
            THEN IsPrefix(HooksCalled(last.f), expect) /\ HandlerCalls(last.f) = 0
            ELSE HooksCalled(last.f) = expect /\ HandlerLast(last.f)

(* C9 amended: clearData during a delivery to the handler does not end the *)
(* delivery, but no hook is called in it after the clearData; the handler *)
(* is called, once and last, if and only if no hook called returned false. *)
C9_ClearDataSkipsRemainingHooks ==
    (last.kind = "delivered" /\ last.f.clearedAt >= 0) =>
        /\ \A j \in 1..Len(last.f.trace) :
              j > last.f.clearedAt => last.f.trace[j].k = 0
        /\ IF Vetoed(last.f) THEN HandlerCalls(last.f) = 0 ELSE HandlerLast(last.f)

(* The newest of two hooks called clearData and returned true: the older *)
(* hook was not called and the handler was. *)
C9_Witness ==
    /\ last.kind = "delivered"
    /\ last.f.clearedAt = 1
    /\ Len(last.f.live0) = 2
    /\ Len(last.f.trace) = 2
    /\ last.f.trace[2].k = 0

(* C10: when a hook removes itself while it runs, the delivery goes on *)
(* with the older hooks and, if they pass, the handler; and a delivery *)
(* that begins while the hook is still removed never calls it, whether the *)
(* array was compacted or not. *)
C10_SelfRemoval ==
    /\ ~crashed
    /\ \A f \in Deliveries : Invoked(f) \cap f.gone = {}
    /\ (last.kind = "delivered" /\ last.f.selfRemoved /\ AllTrue(last.f))
          => HooksCalled(last.f) = last.f.plan /\ HandlerLast(last.f)

(* The newer hook removed itself in one delivery, which went on to the *)
(* older hook and the handler; a later delivery to the handler, with the *)
(* null slot still in the array, has called the older hook only. *)
C10_Witness ==
    /\ last.kind = "delivered"
    /\ last.f.gone # {}
    /\ Len(last.f.trace) = 2
    /\ last.f.trace[1].k \in HookIds
    /\ \E j \in 1..Len(HooksOf(last.f.h)) : HooksOf(last.f.h)[j] = 0

(* A step of installMessageHook, of removeMessageHook. *)
InstallStep == last'.kind = "install" /\ budget' # budget

RemoveStep == last'.kind = "remove" /\ budget' # budget

(* No hook is called twice in one delivery. *)
CalledOnce(f) ==
    \A i, j \in 1..Len(f.trace) :
        (f.trace[i].k # 0 /\ f.trace[i].k = f.trace[j].k) => i = j

(* C11: installMessageHook of a hook that is live in the array of the *)
(* handler leaves every hook array as it is (same slots, same order), so *)
(* installing twice gives the state installing once gives; and no *)
(* delivery calls a hook twice. *)
C11_InstallIdempotent ==
    /\ [][(InstallStep /\ last'.k \in Range(installed[last'.h]))
            => /\ messageHooks' = messageHooks
               /\ installed' = installed
               /\ UNCHANGED << dirtySet, tasks, messageQueue, stack >>]_vars
    /\ [](\A f \in Deliveries : CalledOnce(f))

(* The older of two live hooks has just been installed again: it is still *)
(* in the first slot, once, with the newer hook after it. *)
C11_Witness ==
    /\ last.kind = "install"
    /\ HooksOf(last.h) = << last.k, 3 - last.k >>
    /\ installed[last.h] = HooksOf(last.h)

(* C12: removeMessageHook of a hook that is not live for the handler (never *)
(* installed, removed before, or the handler has no array) leaves the hook *)
(* arrays, the dirty set and the scheduled callbacks as they are. *)
C12_RemoveAbsentHookNoOp ==
    [][(RemoveStep /\ last'.k \notin Range(installed[last'.h]))
        => UNCHANGED << messageHooks, dirtySet, tasks >>]_vars

(* A hook that is not in the array of the handler has just been removed *)
(* from it: the array still holds its one hook and no null slot, and no *)
(* cleanup is due. *)
C12_Witness ==
    /\ last.kind = "remove"
    /\ HooksOf(last.h) = << 3 - last.k >>
    /\ dirtySet = {}

(* A step in which processMessage threw and the exception handler returned. *)
HandlerFaultStep ==
    /\ budget' # budget
    /\ last'.kind = "delivered"
    /\ last'.f.trace[Len(last'.f.trace)] = [k |-> 0, r |-> "threw"]

(* sendMessage has reached the first user code of the delivery: the newest *)
(* live hook of the handler, or processMessage when it has none. *)
SendReached ==
    /\ stack # << >>
    /\ Top = IF installed[last.h] = << >>
             THEN UserFrame("handler", last.h, 0)
             ELSE UserFrame("hook", last.h, installed[last.h][Len(installed[last.h])])

(* C13: when processMessage throws in a sendMessage and the exception *)
(* handler returns, the exception handler was called once, with that *)
(* exception; sendMessage returns to its caller, which runs on, and nothing *)
(* of the loop's state has changed; and a sendMessage made after an *)
(* exception was caught calls the hooks and processMessage as usual. *)
C13_HandlerFaultContained ==
    /\ [][(HandlerFaultStep /\ last'.f.eid = 0)
            => /\ caught' = Append(caught, [h |-> last'.f.h, k |-> 0, eid |-> 0])
               /\ stack' = Pop(stack, 2)
               /\ InUserCode'
               /\ UNCHANGED << messageQueue, pending, tasks, messageHooks, dirtySet,
                               exceptionHandler, flushGuard >>]_vars
    /\ []((last.kind = "send" /\ caught # << >>) => SendReached)

(* processMessage of handler 1 threw in a sendMessage, which returned; a *)
(* sendMessage to handler 2 made afterwards by top-level code is in *)
(* processMessage of handler 2. *)
C13_Witness ==
    /\ caught = << [h |-> 1, k |-> 0, eid |-> 0] >>
    /\ exceptionHandler = "log"
    /\ last = [kind |-> "send", h |-> 2]
    /\ Len(stack) = 2
    /\ Top = UserFrame("handler", 2, 0)

(* A step in which a hook threw and the exception handler returned. *)
HookFaultStep == budget' # budget /\ last'.kind = "hookThrow"

(* The user code a delivery calls next: the first hook of its plan not yet *)
(* called, 0 (processMessage) when all were. *)
After(f) ==
    LET rest == SelectSeq(f.plan, LAMBDA x : x \notin Invoked(f))
    IN  IF rest = << >> THEN 0 ELSE Head(rest)

Faulted(f) == \E j \in 1..Len(f.trace) : f.trace[j].k # 0 /\ f.trace[j].r = "threw"

(* C14: a hook that throws counts as a hook that answered true.  The *)
(* exception handler is called once with its exception, and the delivery *)
(* goes on at once with the next hook still to be called, or with *)
(* processMessage after the oldest; a delivery in which a hook threw has *)
(* called processMessage, once and last, if and only if no hook of it *)
(* answered false. *)
C14_FaultingHookPasses ==
    /\ [][HookFaultStep
            => LET f == stack[Len(stack) - 1]
               IN  /\ caught' = Append(caught, [h |-> Top.h, k |-> Top.k, eid |-> f.eid])
                   /\ Len(stack') = Len(stack)
                   /\ stack'[Len(stack')].k = After(f)
                   /\ stack'[Len(stack') - 1].trace =
                         Append(Answered(f, "threw").trace,
                                [k |-> After(f), r |-> "pending"])]_vars
    /\ [](\A f \in Deliveries :
             (last.kind = "delivered" /\ f = last.f /\ Faulted(f))
                => IF Vetoed(f)
                   THEN HandlerCalls(f) = 0 /\ IsPrefix(HooksCalled(f), f.plan)
                   ELSE HooksCalled(f) = f.plan /\ HandlerLast(f))

(* The newer of two hooks threw; the older hook was called and answered *)
(* true, and processMessage was called. *)
C14_Witness ==
    /\ last.kind = "delivered"
    /\ Len(last.f.live0) = 2
    /\ Len(last.f.trace) = 3
    /\ last.f.trace[1] = [k |-> last.f.live0[1], r |-> "threw"]
    /\ last.f.trace[2] = [k |-> last.f.live0[2], r |-> "true"]
    /\ last.f.trace[3].k = 0
    /\ Len(caught) = 1

(* The sentinel of a run is in the queue, behind entries that were there *)
(* when the run began. *)
SentinelAhead(run) ==
    \E i \in 1..Len(messageQueue) :
        /\ messageQueue[i].sentinel
        /\ messageQueue[i].id = run.sid
        /\ \A l \in 1..(i - 1) :
              messageQueue[l].sentinel \/ messageQueue[l].id <= run.bound

(* C15: a loop run during which a hook or a handler threw, and the *)
(* exception handler returned, is still running and will end at its *)
(* sentinel: the sentinel is in the queue and what is ahead of it was in *)
(* the queue when the run began. *)
C15_FaultedRunEndsAtSentinel ==
    \A j \in 1..Len(stack) :
        (stack[j].kind = "loop" /\ Len(caught) > stack[j].caught0)
            => SentinelAhead(stack[j])

(* The scheduled loop runs: callbacks of runMessageLoop that are in the *)
(* microtask queue and not rejected. *)
ScheduledRuns ==
    { i \in 1..Len(tasks) : tasks[i].fn = "runMessageLoop" /\ ~tasks[i].rejected }

(* C16: at most one loop run is scheduled, and one is scheduled exactly *)
(* when pending is not null; pending then cancels that very callback. *)
C16_OneScheduledRun ==
    /\ Cardinality(ScheduledRuns) <= 1
    /\ (ScheduledRuns # {}) <=> (pending # 0)
    /\ \A i \in ScheduledRuns : tasks[i].id = pending

(* A handler called by a run that flush made has posted: the callback that *)
(* flush cancelled is still in the microtask queue, rejected, and behind it *)
(* is the one scheduled run. *)
C16_Witness ==
    /\ \E j \in 1..Len(stack) : stack[j].kind = "loop" /\ stack[j].flush
    /\ last.kind = "post"
    /\ Len(tasks) = 2
    /\ tasks[1].fn = "runMessageLoop" /\ tasks[1].rejected
    /\ tasks[2].fn = "runMessageLoop" /\ ~tasks[2].rejected
    /\ pending = tasks[2].id

(* A run that flush made is on the stack: a flush is executing. *)
FlushExecuting == \E j \in 1..Len(stack) : stack[j].kind = "loop" /\ stack[j].flush

FlushStep == last'.kind = "flush" /\ budget' # budget

(* flush, called while a run is scheduled and no flush is executing, *)
(* cancels the scheduled callback and makes a run itself. *)
FlushCancelsAndRuns ==
    (FlushStep /\ pending # 0 /\ ~FlushExecuting)
        => /\ last'.ran
           /\ pending' = 0
           /\ ScheduledRuns' = {}

(* A cancelled callback, when its turn comes, makes no loop run. *)
CancelledNeverRuns ==
    (last'.kind = "task" /\ tasks' # tasks /\ Head(tasks).rejected)
        => UNCHANGED << messageQueue, stack, delivered, pending >>

(* Entries leave the queue from the front, one at a time. *)
DequeuesInOrder ==
    (last'.kind \in {"dispatch", "skip", "loopEnd"} /\ messageQueue' # messageQueue)
        => messageQueue' = Tail(messageQueue)

(* When the run that flush made ends, and flush returns, no entry that was *)
(* in the queue when flush was called is still in it. *)
FlushReturnsDrained ==
    (last'.kind = "loopEnd" /\ stack' # stack /\ last'.flush)
        => \A i \in 1..Len(messageQueue') :
              messageQueue'[i].sentinel \/ messageQueue'[i].id > Top.bound

(* C17: flush called while a loop run is scheduled and no flush is *)
(* executing cancels the scheduled callback, which never makes a loop *)
(* run, and before flush returns every entry that was in the queue at the *)
(* call has been taken out of the queue, from the front, in order. *)
C17_FlushRunsTheScheduledRun ==
    [][/\ FlushCancelsAndRuns
       /\ CancelledNeverRuns
       /\ DequeuesInOrder
       /\ FlushReturnsDrained]_vars

(* C18: flush called while a flush is executing does nothing: nothing is *)
(* dequeued or delivered, the pending handle and the scheduled callbacks *)
(* are left as they are, and no second run is entered; so at most one run *)
(* made by flush is ever on the stack. *)
C18_NestedFlushNoOp ==
    /\ [][(FlushStep /\ FlushExecuting)
            => /\ ~last'.ran
               /\ UNCHANGED << messageQueue, pending, tasks, delivered, stack,
                               flushGuard >>]_vars
    /\ [](Cardinality({ j \in 1..Len(stack) :
                           stack[j].kind = "loop" /\ stack[j].flush }) <= 1)

(* A handler called by the run of a flush has posted, so that a run is *)
(* scheduled, and has then called flush, which did nothing. *)
C18_Witness ==
    /\ last = [kind |-> "flush", ran |-> FALSE]
    /\ FlushExecuting
    /\ Top.kind = "handler"
    /\ pending # 0
    /\ ScheduledRuns # {}

(* C19: every loop run ends after it has dequeued at most the entries that *)
(* were in the queue when it began and its sentinel: while a run has not *)
(* ended its sentinel is in the queue, behind entries that were there when *)
(* the run began, and no run dequeues from an empty queue. *)
C19_RunEndsWithinItsSnapshot ==
    /\ ~crashed
    /\ \A j \in 1..Len(stack) : stack[j].kind = "loop" => SentinelAhead(stack[j])

(* The entry with this identity is in the queue, not cleared. *)
Queued(id) ==
    \E i \in 1..Len(messageQueue) :
        /\ ~messageQueue[i].sentinel
        /\ messageQueue[i].id = id
        /\ messageQueue[i].handler # 0

(* C20: when scheduled callbacks are run, loops take their turns and *)
(* handlers return, every message that postMessage added to the queue is *)
(* in the end dispatched to its handler by a loop run, unless clearData *)
(* cleared it first. *)
C20_PostedEventuallyDelivered ==
    \A id \in 1..MaxFlushCalls :
        Queued(id) ~> (id \in Range(delivered) \/ id \in clearedIds)

SetHandlerStep == last'.kind = "setExceptionHandler" /\ budget' # budget

GetHandlerStep == last'.kind = "getExceptionHandler" /\ budget' # budget

(* C21: setExceptionHandler returns the handler that was current and *)
(* makes the handler given current; nothing else changes the current *)
(* handler, so getExceptionHandler returns the handler set last; and *)
(* setting the handler that the previous call returned restores the *)
(* handler that was current before that call. *)
C21_SetReturnsPrevious ==
    [][/\ SetHandlerStep
            => /\ last'.old = exceptionHandler
               /\ exceptionHandler' = last'.new
               /\ (last.kind = "setExceptionHandler" /\ last'.new = last.old)
                     => exceptionHandler' = last.old
       /\ GetHandlerStep
            => last'.result = exceptionHandler /\ exceptionHandler' = exceptionHandler
       /\ ~SetHandlerStep => exceptionHandler' = exceptionHandler]_vars

(* The re-throwing handler was set, and the handler that call returned has *)
(* just been set again: the logging handler is current. *)
C21_Witness ==
    /\ last = [kind |-> "setExceptionHandler", old |-> "rethrow", new |-> "log"]
    /\ exceptionHandler = "log"

(* A step that compacts: it empties the dirty set or shortens a hook array. *)
Compacts ==
    \/ dirtySet # {} /\ dirtySet' = {}
    \/ \E h \in Handlers : Len(HooksOf(h)') < Len(HooksOf(h))

(* C22: the hook arrays are compacted only by the scheduled callback *)
(* cleanupDirtySet, which runs when no sendMessage, loop run, flush, hook *)
(* or handler is in progress; so no hook array gets shorter while a *)
(* delivery iterates over it. *)
C22_CompactionOnlyWhenIdle ==
    [][Compacts
        => /\ stack = << >>
           /\ stack' = << >>
           /\ last' = [kind |-> "task", fn |-> "cleanupDirtySet", ran |-> TRUE]]_vars

(* A hook called by a delivery has removed a hook of the handler: the slot *)
(* is null, the array is in the dirty set and cleanupDirtySet is *)
(* scheduled, while the delivery is still in progress. *)
C22_Witness ==
    /\ stack # << >>
    /\ Top.kind = "hook"
    /\ last.kind = "remove"
    /\ Top.h \in dirtySet
    /\ 0 \in Range(HooksOf(Top.h))
    /\ \E i \in 1..Len(tasks) : tasks[i].fn = "cleanupDirtySet" /\ ~tasks[i].rejected

CleanupStep ==
    /\ tasks' # tasks
    /\ last' = [kind |-> "task", fn |-> "cleanupDirtySet", ran |-> TRUE]

(* C23: after cleanupDirtySet has run, every hook array that was in the *)
(* dirty set has no null slot and holds the hooks that were live for its *)
(* handler, in the order of their installation; the other arrays are as *)
(* they were; and the dirty set is empty. *)
C23_CompactionKeepsLiveHooks ==
    [][CleanupStep
        => /\ dirtySet' = {}
           /\ DOMAIN messageHooks' = DOMAIN messageHooks
           /\ \A h \in DOMAIN messageHooks :
                 IF h \in dirtySet
                 THEN /\ 0 \notin Range(messageHooks'[h])
                      /\ messageHooks'[h] = installed[h]
                      /\ messageHooks'[h] = SelectSeq(messageHooks[h], LAMBDA k : k # 0)
                 ELSE messageHooks'[h] = messageHooks[h]]_vars

(* cleanupDirtySet has just run; the array of handler 1, the only handler *)
(* that ever had hooks, holds hook 1 and then hook 2, which was removed *)
(* and installed again behind hook 1. *)
C23_Witness ==
    /\ last = [kind |-> "task", fn |-> "cleanupDirtySet", ran |-> TRUE]
    /\ DOMAIN messageHooks = {1}
    /\ messageHooks[1] = << 1, 2 >>
    /\ dirtySet = {}

(* A step of the code of sendMessage itself: its call, up to the first *)
(* hook or processMessage; the return of a hook, up to the next hook or *)
(* processMessage; its return. *)
SendOwnStep ==
    /\ last'.kind \in {"send", "hookReturn", "hookThrow", "delivered"}
    /\ stack' # stack

(* C24: sendMessage itself leaves the queue, the pending handle, the *)
(* scheduled callbacks and the flush guard as they are, and does not *)
(* conflate: whatever changes during a sendMessage is changed by the *)
(* calls its hooks and handler make. *)
C24_SendLeavesQueueAlone ==
    [][SendOwnStep
        => UNCHANGED << messageQueue, pending, tasks, flushGuard, nextId, burst,
                        delivered, clearedIds >>]_vars

(* A sendMessage by top-level code to a handler has returned, with a *)
(* message of the same type for the same handler in the queue and a run *)
(* scheduled. *)
C24_Witness ==
    /\ last.kind = "delivered"
    /\ last.f.eid = 0
    /\ stack = << >>
    /\ pending # 0
    /\ \E i \in 1..Len(messageQueue) :
          messageQueue[i].handler = last.f.h /\ messageQueue[i].msg = last.f.msg

(* C25: an entry that a loop run dispatches goes through the hooks that *)
(* are live for its handler when it is dispatched, whatever hooks were *)
(* live when it was posted: the first code called is the newest hook live *)
(* now, or processMessage when none is; a delivery by a run calls no hook *)
(* that was not live when it began; and when a hook answers false *)
(* processMessage is not called. *)
C25_HooksAsOfDelivery ==
    /\ last.kind = "dispatch"
          => LET f == stack[Len(stack) - 1]
             IN  /\ f.eid = last.id
                 /\ f.live0 = Reverse(installed[f.h])
                 /\ Top = IF f.live0 = << >> THEN UserFrame("handler", f.h, 0)
                          ELSE UserFrame("hook", f.h, f.live0[1])
    /\ \A f \in Deliveries :
          f.eid # 0 => /\ Invoked(f) \subseteq Range(f.live0)
                       /\ Vetoed(f) => HandlerCalls(f) = 0

(* Hook 1 was the only hook of the handler when the entry was posted; it *)
(* was removed and hook 2 installed before the run: the run has called *)
(* hook 2 for the entry. *)
C25_Witness ==
    /\ last.kind = "dispatch"
    /\ last.hooks0 = << 1 >>
    /\ stack[Len(stack) - 1].live0 = << 2 >>
    /\ Top.kind = "hook" /\ Top.k = 2

ClearStep == last'.kind = "clearData" /\ budget' # budget

(* C26: clearData(H) keeps the queue's length and order; the entries of *)
(* H hold null, null and every other entry is as it was; the hook arrays *)
(* of the other handlers are as they were; and the pending handle and the *)
(* scheduled loop runs are unchanged. *)
C26_ClearDataTouchesOnlyItsHandler ==
    [][ClearStep
        => /\ Len(messageQueue') = Len(messageQueue)
           /\ \A i \in 1..Len(messageQueue) :
                 /\ messageQueue'[i].id = messageQueue[i].id
                 /\ messageQueue'[i].sentinel = messageQueue[i].sentinel
                 /\ IF messageQueue[i].handler = last'.h
                    THEN messageQueue'[i].handler = 0 /\ messageQueue'[i].msg = NoMsg
                    ELSE messageQueue'[i] = messageQueue[i]
           /\ \A h \in Handlers \ {last'.h} :
                 /\ (h \in DOMAIN messageHooks') <=> (h \in DOMAIN messageHooks)
                 /\ HooksOf(h)' = HooksOf(h)
           /\ pending' = pending
           /\ ScheduledRuns' = ScheduledRuns]_vars

(* clearData has cleared the first entry of the queue; the second entry, *)
(* of the other handler, holds its handler and message, that handler has *)
(* its hook, and the run is still scheduled. *)
C26_Witness ==
    /\ last.kind = "clearData"
    /\ Len(messageQueue) = 2
    /\ messageQueue[1].id \in clearedIds /\ messageQueue[1].handler = 0
    /\ messageQueue[2].handler = 3 - last.h /\ messageQueue[2].msg # NoMsg
    /\ HooksOf(3 - last.h) = << 1 >>
    /\ pending # 0

LoopExecuting == \E j \in 1..Len(stack) : stack[j].kind = "loop"

(* C27: whenever no loop run is executing and the queue holds an entry *)
(* with a message in it, a loop run is scheduled: pending is not null. *)
C27_NonEmptyQueueHasRunScheduled ==
    (~LoopExecuting /\ \E id \in 1..(nextId - 1) : Queued(id)) => pending # 0

(* C28: whenever no flush call is executing, flushGuard is false, after *)
(* any sequence of operations, deliveries that fault with a re-throwing *)
(* exception handler included.                                          *)
C28_GuardFalseOutsideFlush == ~FlushExecuting => ~flushGuard

PostStep == last'.kind = "post" /\ budget' # budget

(* C29: a post that a queued message absorbs leaves the queue and the  *)
(* schedule as they were: no entry is appended, removed, moved or       *)
(* invalidated, the absorbing entry stays where it was with its handler *)
(* and its type, and the pending handle and the scheduled callbacks are *)
(* unchanged.                                                           *)
C29_ConflatedPostChangesNothing ==
    [][(PostStep /\ last'.conflated)
        => LET a == last'.calls[last'.accepted]
           IN  /\ Len(messageQueue') = Len(messageQueue)
               /\ \A i \in 1..Len(messageQueue) : messageQueue'[i] = messageQueue[i]
               /\ messageQueue'[a].handler = last'.h
               /\ messageQueue'[a].msg.type = last'.msg.type
               /\ pending' = pending
               /\ tasks' = tasks]_vars

(* The second of two queued messages absorbed the post that the first *)
(* declined, while a run was scheduled.                                *)
C29_Witness ==
    /\ last.kind = "post"
    /\ last.conflated
    /\ last.calls = << 1, 2 >>
    /\ last.accepted = 2
    /\ Len(messageQueue) = 2
    /\ messageQueue[2].handler = last.h
    /\ pending # 0

(* No hook is in two slots of the array. *)
OneSlotEach(hooks) ==
    \A i, j \in 1..Len(hooks) : (hooks[i] # 0 /\ hooks[i] = hooks[j]) => i = j

(* C30: in every reachable state a hook is in one slot at most of the *)
(* hook array of a handler, tombstones left by removeMessageHook and   *)
(* clearData aside, and no delivery in progress has called a hook      *)
(* twice.                                                              *)
C30_HookInOneLiveSlot ==
    /\ \A h \in Handlers : OneSlotEach(HooksOf(h))
    /\ \A f \in Deliveries :
          \A k \in HookIds : Cardinality({ j \in 1..Len(f.trace) : f.trace[j].k = k }) <= 1

(* A hook was removed and installed again before the compaction: its old *)
(* slot is a tombstone, it is in the last slot, after the other hook.    *)
C30_Witness ==
    /\ last.kind = "install"
    /\ HooksOf(last.h) = << 0, 3 - last.k, last.k >>
    /\ last.h \in dirtySet

(* The hooks sendMessage calls when it walks the array from below slot i *)
(* and every hook answers true: retro(hooks), null slots passed over.    *)
RECURSIVE WalkFrom(_, _)
WalkFrom(hooks, i) ==
    LET j == NextHook(hooks, i)
    IN  IF j = 0 THEN << >> ELSE << hooks[j] >> \o WalkFrom(hooks, j)

Walk(hooks) == WalkFrom(hooks, Len(hooks) + 1)

(* The hooks of its plan a delivery has still to call. *)
StillToCall(f) == SelectSeq(f.plan, LAMBDA k : k \notin Invoked(f))

(* C31: the compaction cannot be seen by a delivery.  The hooks a send   *)
(* would call, in order, are the same before and after cleanupDirtySet   *)
(* runs, and they are the hooks installed and not removed since, newest  *)
(* first, which no compaction changes; and at every point of a delivery  *)
(* the hooks the walk of the array has still to reach are the hooks of  *)
(* that list not yet called, whether the array holds null slots or not.  *)
C31_CompactionUnobservable ==
    /\ [][CleanupStep
            => /\ installed' = installed
               /\ \A h \in Handlers : Walk(HooksOf(h)') = Walk(HooksOf(h))]_vars
    /\ [](/\ \A h \in Handlers : Walk(HooksOf(h)) = Reverse(installed[h])
          /\ \A j \in 1..Len(stack) :
                stack[j].kind = "send"
                   => WalkFrom(HooksOf(stack[j].h), stack[j].i) = StillToCall(stack[j]))

(* A delivery began while the compaction was due: it called the newest  *)
(* hook in the last slot, passed over a null slot and is calling the     *)
(* older hook in the first slot; cleanupDirtySet is still scheduled.     *)
C31_Witness ==
    /\ Len(stack) = 2
    /\ Top.kind = "hook"
    /\ stack[1].kind = "send"
    /\ stack[1].i = 1
    /\ HooksOf(Top.h) = << Top.k, 0, 3 - Top.k >>
    /\ stack[1].trace = << [k |-> 3 - Top.k, r |-> "true"], [k |-> Top.k, r |-> "pending"] >>
    /\ Top.h \in dirtySet
    /\ \E i \in 1..Len(tasks) : tasks[i].fn = "cleanupDirtySet" /\ ~tasks[i].rejected

(* The callbacks of cleanupDirtySet that are scheduled. *)
ScheduledCleanups ==
    { i \in 1..Len(tasks) : tasks[i].fn = "cleanupDirtySet" /\ ~tasks[i].rejected }

(* C32: in every reachable state a hook array with a null slot is in the *)
(* dirty set, and cleanupDirtySet is scheduled exactly when the dirty    *)
(* set is not empty, once at most.                                       *)
C32_DirtySetTracksTombstones ==
    /\ \A h \in Handlers : 0 \in Range(HooksOf(h)) => h \in dirtySet
    /\ Cardinality(ScheduledCleanups) = IF dirtySet = {} THEN 0 ELSE 1

(* The arrays of both handlers hold a null slot and are in the dirty *)
(* set; the second removal did not schedule cleanupDirtySet again.    *)
C32_Witness ==
    /\ last.kind = "remove"
    /\ dirtySet = {1, 2}
    /\ \A h \in Handlers : 0 \in Range(HooksOf(h))
    /\ Cardinality(ScheduledCleanups) = 1

(* C33: while a loop run is executing, the sentinel it appended is in   *)
(* the queue until the run itself dequeues it: no other run takes it,  *)
(* and no run dequeues from an empty queue.                            *)
C33_RunKeepsItsSentinel ==
    /\ \A j \in 1..Len(stack) :
          stack[j].kind = "loop"
             => \E i \in 1..Len(messageQueue) :
                   messageQueue[i].sentinel /\ messageQueue[i].id = stack[j].sid
    /\ ~crashed

====
